---------------------------- MODULE Spec2Model ----------------------------
(***************************************************************************)
(* A model of SphinxAI_Core (src/main.py): the filtering and               *)
(* cross-referencing pipeline that main() runs over two spreadsheets.      *)
(*                                                                         *)
(* The text of a cell is a sequence of one-character strings, so that      *)
(* digit runs, substrings, patterns and str() are computed, not assumed.   *)
(* A cell is a record [k, n, s]: k is "na" (missing), "int" or "text";     *)
(* n is the integer of an "int" cell, s the text of a "text" cell.         *)
(* A dataframe is [columns, rows]; a row is [i, c]: its index label and    *)
(* its cells, one per column.                                              *)
(***************************************************************************)
EXTENDS Integers, Sequences, FiniteSets, TLC

VARIABLES
    pc,                  \* position of the run of main(), or of a direct call
    sheet_asymmetries,   \* the remote worksheet "BASE Asimetrias del Cerebro"
    sheet_exercises,     \* the remote worksheet "BASE Ejercicios"
    df_asymmetries,      \* main's local df_asymmetries
    df_exercises,        \* main's local df_exercises
    escenarios_col,      \* main's local escenarios_col
    filters,             \* main's local filters: <<column, accepted set>> pairs
    slider_filters,      \* main's local slider_filters: <<column, value>> pairs
    filtered_df,         \* main's local filtered_df
    any_filter_applied,  \* main's local any_filter_applied
    all_escenarios,      \* main's local all_escenarios (the options offered)
    default_escenarios,  \* the default= argument of the scenario multiselect
    selected_escenarios, \* main's local selected_escenarios
    exercise_mask,       \* main's local exercise_mask: one boolean per row
    filtered_exercises,  \* main's local filtered_exercises
    exercise_filters,    \* main's local exercise_filters
    final_exercises,     \* main's local final_exercises
    bound,               \* the names main() has bound so far
    st_error,            \* the notices shown with st.error
    st_warning,          \* the notices shown with st.warning
    value,               \* argument of a direct call of is_in_percentage_range
    range_str,           \* argument of a direct call of is_in_percentage_range
    range_result         \* what that call returned, as a 0/1-length sequence

vars == <<pc, sheet_asymmetries, sheet_exercises, df_asymmetries, df_exercises,
          escenarios_col, filters, slider_filters, filtered_df,
          any_filter_applied, all_escenarios, default_escenarios,
          selected_escenarios, exercise_mask, filtered_exercises,
          exercise_filters, final_exercises, bound, st_error, st_warning,
          value, range_str, range_result>>

---------------------------------------------------------------------------
(* Bounds of the model.                                                    *)

\* longest text of a cell handed to is_in_percentage_range directly
MaxLen == 5
\* most rows of a worksheet in the general families of worksheets
MaxRows == 2
\* most rows of the worksheet in the family with many scenario labels
MaxLabelRows == 7
\* most columns of a primary worksheet in the family of column layouts
MaxCols == 3

---------------------------------------------------------------------------
(* Text, cells and the conversions the code applies to them.               *)

Digits == {"0", "1", "2", "3", "4", "5", "6", "7", "8", "9"}

DigitChars == <<"0", "1", "2", "3", "4", "5", "6", "7", "8", "9">>

\* int() of one decimal digit
DigitVal(c) == CHOOSE d \in 0..9 : DigitChars[d + 1] = c

NA == [k |-> "na", n |-> 0, s |-> <<>>]

IntCell(i) == [k |-> "int", n |-> i, s |-> <<>>]

TextCell(t) == [k |-> "text", n |-> 0, s |-> t]

\* pd.isna of a scalar cell
isna(cell) == cell.k = "na"

RECURSIVE NatToText(_)
\* the decimal digits of a natural number, most significant first
NatToText(m) ==
    IF m < 10 THEN <<DigitChars[m + 1]>>
    ELSE Append(NatToText(m \div 10), DigitChars[(m % 10) + 1])

\* Python's str() of a cell that is not missing
str(cell) ==
    IF cell.k = "text" THEN cell.s
    ELSE IF cell.n < 0 THEN <<"-">> \o NatToText(-cell.n)
    ELSE NatToText(cell.n)

RECURSIVE int(_)
\* Python's int() of a run of decimal digits
int(run) ==
    IF Len(run) = 0 THEN 0
    ELSE 10 * int(SubSeq(run, 1, Len(run) - 1)) + DigitVal(run[Len(run)])

RECURSIVE findall_from(_, _, _, _)
\* the scan of re.findall(r'\d+', s): i is the position read next, cur the
\* digit run being read, acc the runs already closed
findall_from(s, i, cur, acc) ==
    IF i > Len(s)
    THEN IF cur = <<>> THEN acc ELSE Append(acc, cur)
    ELSE IF s[i] \in Digits
    THEN findall_from(s, i + 1, Append(cur, s[i]), acc)
    ELSE findall_from(s, i + 1, <<>>, IF cur = <<>> THEN acc ELSE Append(acc, cur))

\* re.findall(r'\d+', s): the maximal digit runs of s, left to right
findall_digits(s) == findall_from(s, 1, <<>>, <<>>)

\* A plausible slip: the extracted pair is put in order before the test.
is_in_percentage_range_ordered(v, cell) ==
    IF isna(cell) THEN FALSE
    ELSE LET numbers == findall_digits(str(cell))
         IN  IF Len(numbers) = 1 THEN v = int(numbers[1])
             ELSE IF Len(numbers) = 2
             THEN LET a == int(numbers[1])
                      b == int(numbers[2])
                  IN  (IF a <= b THEN a ELSE b) <= v /\ v <= (IF a <= b THEN b ELSE a)
             ELSE FALSE

\* FilterManager.is_in_percentage_range(value, range_str)
is_in_percentage_range(v, cell) ==
    IF isna(cell) THEN FALSE
    ELSE LET numbers == findall_digits(str(cell))
         IN  IF Len(numbers) = 1 THEN v = int(numbers[1])
             ELSE IF Len(numbers) = 2
             THEN int(numbers[1]) <= v /\ v <= int(numbers[2])
             ELSE FALSE

---------------------------------------------------------------------------
(* Names the code spells out.  A column name is a sequence of pieces of    *)
(* text; what the code looks for in a name ("Escenario", then ":") is a    *)
(* piece of its own, so that `in` and startswith search a run of pieces.   *)

\* the marker of line 184: "Escenario"
Tok_Escenario == <<"Escenario">>

\* the prefix of line 209: "Escenario:"
Tok_EscenarioPrefix == <<"Escenario", ":">>

\* the column name of line 50: "Descripcion"
Col_Descripcion == <<"Descripcion">>

\* "% Hemisferio Correspondiente al ojo (Natural)"
Col_PctNatural == <<"% Hemisferio Correspondiente al ojo (Natural)">>

\* "% de Hemisferio Recesivo (Anitnatural)"
Col_PctRecesivo == <<"% de Hemisferio Recesivo (Anitnatural)">>

\* the allow-list of lines 56-59
slider_columns == {Col_PctNatural, Col_PctRecesivo}

\* "Filmina"
Col_Filmina == <<"Filmina">>

\* "Nivel de Ejercicio"
Col_Nivel == <<"Nivel de Ejercicio">>

\* "Dificultad"
Col_Dificultad == <<"Dificultad">>

\* "Dificultad de Nivel Ejercicio"
Col_DificultadNivel == <<"Dificultad de Nivel Ejercicio">>

\* the columns create_exercise_filters reads, in the order it reads them
exercise_filter_columns == <<Col_Filmina, Col_Nivel, Col_Dificultad, Col_DificultadNivel>>

\* the slider's neutral value (value=50, line 67; tested on line 94)
NeutralValue == 50

\* the length of the default selection (lines 203)
DefaultCount == 5

---------------------------------------------------------------------------
(* Text predicates.                                                        *)

\* Python's `sub in s` for two texts
contains(s, sub) ==
    \E i \in 0..(Len(s) - Len(sub)) : SubSeq(s, i + 1, i + Len(sub)) = sub

\* Python's s.startswith(prefix)
startswith(s, prefix) ==
    Len(prefix) <= Len(s) /\ SubSeq(s, 1, Len(prefix)) = prefix

\* re.search(pat, s) for a pattern made of ordinary characters and ".":
\* "." matches any character but a newline, anything else matches itself.
\* (Series.str.contains(pat) searches with regex=True by default.)
re_search(pat, s) ==
    \E i \in 0..(Len(s) - Len(pat)) :
        \A j \in 1..Len(pat) :
            IF pat[j] = "." THEN s[i + j] # "\n" ELSE s[i + j] = pat[j]

\* Series.astype(str) of one cell: a missing cell becomes the text "nan"
astype_str(cell) ==
    IF isna(cell) THEN TextCell(<<"n", "a", "n">>) ELSE TextCell(str(cell))

---------------------------------------------------------------------------
(* Dataframes.                                                             *)

EmptyDataFrame == [columns |-> <<>>, rows |-> <<>>]

\* DataFrame.empty: some axis has length 0
empty(df) == Len(df.columns) = 0 \/ Len(df.rows) = 0

\* position of a column that the dataframe has
col_pos(df, col) == CHOOSE j \in 1..Len(df.columns) : df.columns[j] = col

has_column(df, col) == \E j \in 1..Len(df.columns) : df.columns[j] = col

\* row[col]
cell_of(df, row, col) == row.c[col_pos(df, col)]

\* df[mask] for a mask given as the rows it keeps
select_rows(df, mask) ==
    [columns |-> df.columns, rows |-> SelectSeq(df.rows, LAMBDA r : r \in mask)]

\* df.dropna(how='all').dropna(axis=1, how='all')
dropna_all(df) ==
    LET rows1 == SelectSeq(df.rows, LAMBDA r : \E j \in 1..Len(r.c) : ~isna(r.c[j]))
        keepc == {j \in 1..Len(df.columns) : \E i \in 1..Len(rows1) : ~isna(rows1[i].c[j])}
        RECURSIVE pick(_, _)
        pick(seq, j) ==
            IF j > Len(seq) THEN <<>>
            ELSE (IF j \in keepc THEN <<seq[j]>> ELSE <<>>) \o pick(seq, j + 1)
    IN  [columns |-> pick(df.columns, 1),
         rows |-> [i \in 1..Len(rows1) |-> [i |-> rows1[i].i, c |-> pick(rows1[i].c, 1)]]]

\* DataManager.load_data: the cleaned worksheet, or an empty dataframe when
\* anything in the try block raises
load_data(sheet, raises) == IF raises THEN EmptyDataFrame ELSE dropna_all(sheet)

RECURSIVE unique_from(_, _, _, _)
\* Series.unique(): the distinct values in order of first occurrence;
\* with skipna, of Series.dropna().unique()
unique_from(df, col, k, skipna) ==
    IF k = 0 THEN <<>>
    ELSE LET before == unique_from(df, col, k - 1, skipna)
             v == cell_of(df, df.rows[k], col)
         IN  IF (skipna /\ isna(v)) \/ (\E m \in 1..Len(before) : before[m] = v)
             THEN before
             ELSE Append(before, v)

\* df[col].dropna().unique()
dropna_unique(df, col) == unique_from(df, col, Len(df.rows), TRUE)

\* df[col].unique()
unique(df, col) == unique_from(df, col, Len(df.rows), FALSE)

Range(seq) == {seq[m] : m \in 1..Len(seq)}

\* sorted(values) raises TypeError when it has to order a text against a
\* number (an integer, or the float nan of a missing cell)
sorted_raises(values) ==
    \E a \in Range(values), b \in Range(values) : a.k = "text" /\ b.k # "text"

\* Series.isin(selected_values) for one cell
isin(cell, selected_values) == cell \in selected_values

---------------------------------------------------------------------------
(* FilterManager.                                                          *)

\* line 184-185 without its fallback: the first column whose name contains
\* "Escenario", as a 0/1-length sequence
first_escenario_column(columns) ==
    LET hits == SelectSeq(columns, LAMBDA c : contains(c, Tok_Escenario))
    IN  IF hits = <<>> THEN <<>> ELSE <<hits[1]>>

\* next((col for col in columns if "Escenario" in col), columns[-1]);
\* columns[-1] is evaluated first and needs a column to exist
find_escenarios_col(columns) ==
    IF first_escenario_column(columns) # <<>>
    THEN first_escenario_column(columns)[1]
    ELSE columns[Len(columns)]

\* line 50: the columns that get a filter
filter_cols(df, esc_col) ==
    SelectSeq(df.columns, LAMBDA c : c # esc_col /\ c # Col_Descripcion)

\* the columns of filter_cols that take the else branch of line 62
multiselect_cols(df, esc_col) ==
    SelectSeq(filter_cols(df, esc_col), LAMBDA c : c \notin slider_columns)

\* the columns of filter_cols that take the then branch of line 62
slider_cols(df, esc_col) ==
    SelectSeq(filter_cols(df, esc_col), LAMBDA c : c \in slider_columns)

\* line 71 raises for some column: its values cannot be sorted
create_sidebar_filters_raises(df, esc_col) ==
    \E m \in 1..Len(multiselect_cols(df, esc_col)) :
        sorted_raises(dropna_unique(df, multiselect_cols(df, esc_col)[m]))

RECURSIVE SubsetChoices(_)
\* what the user can pick in a row of multiselects: a subset of each one's
\* options
SubsetChoices(options) ==
    IF options = <<>> THEN {<<>>}
    ELSE {<<s>> \o rest : s \in SUBSET Head(options), rest \in SubsetChoices(Tail(options))}

RECURSIVE ValueChoices(_, _)
\* what the user can set on n sliders
ValueChoices(n, values) ==
    IF n = 0 THEN {<<>>}
    ELSE {<<v>> \o rest : v \in values, rest \in ValueChoices(n - 1, values)}

\* the dict of lines 52, 72: one entry per multiselect column, in column order
filters_dict(cols, picked) == [m \in 1..Len(cols) |-> <<cols[m], picked[m]>>]

\* A plausible slip: `pd.isna(row[col]) or` for `not pd.isna(row[col]) and`,
\* which lets a missing cell through.
create_percentage_mask_lenient(df, col, v, row) ==
    isna(cell_of(df, row, col)) \/ is_in_percentage_range(v, cell_of(df, row, col))

\* FilterManager.create_percentage_mask, for one row.  (On a dataframe with
\* no rows DataFrame.apply returns an empty frame and df[mask] has no rows.)
create_percentage_mask(df, col, v, row) ==
    ~isna(cell_of(df, row, col)) /\ is_in_percentage_range(v, cell_of(df, row, col))

RECURSIVE apply_regular_filters(_, _, _)
\* the loop of lines 87-90 from its k-th entry on; acc is [df, any]
apply_regular_filters(acc, fs, k) ==
    IF k > Len(fs) THEN acc
    ELSE apply_regular_filters(
            IF fs[k][2] # {}
            THEN [df |-> select_rows(acc.df,
                            {r \in Range(acc.df.rows) :
                                isin(cell_of(acc.df, r, fs[k][1]), fs[k][2])}),
                  any |-> TRUE]
            ELSE acc,
            fs, k + 1)

RECURSIVE apply_slider_filters(_, _, _)
\* the loop of lines 93-97 from its k-th entry on; acc is [df, any]
apply_slider_filters(acc, sfs, k) ==
    IF k > Len(sfs) THEN acc
    ELSE apply_slider_filters(
            IF sfs[k][2] # NeutralValue
            THEN [df |-> select_rows(acc.df,
                            {r \in Range(acc.df.rows) :
                                create_percentage_mask(acc.df, sfs[k][1], sfs[k][2], r)}),
                  any |-> TRUE]
            ELSE acc,
            sfs, k + 1)

\* A plausible slip: the flag reports whether a row was removed.
apply_filters_flag_by_rows(df, fs, sfs) ==
    LET out == apply_slider_filters(
                  apply_regular_filters([df |-> df, any |-> FALSE], fs, 1), sfs, 1)
    IN  [df |-> out.df, any |-> Len(out.df.rows) < Len(df.rows)]

\* FilterManager.apply_filters: [df |-> filtered_df, any |-> any_filter_applied]
apply_filters(df, fs, sfs) ==
    apply_slider_filters(apply_regular_filters([df |-> df, any |-> FALSE], fs, 1), sfs, 1)

---------------------------------------------------------------------------
(* The scenario selection and the cross-reference of main().               *)

\* A plausible slip: the labels are read from the unfiltered dataframe.
offered_escenarios_unfiltered(fdf, esc_col) == dropna_unique(df_asymmetries, esc_col)

\* line 197: filtered_df[escenarios_col].dropna().unique()
offered_escenarios(fdf, esc_col) == dropna_unique(fdf, esc_col)

\* line 203: all_escenarios[:5] if len(all_escenarios) > 5 else all_escenarios
default_selection(options) ==
    IF Len(options) > DefaultCount THEN SubSeq(options, 1, DefaultCount) ELSE options

\* A plausible slip: an empty selection is sent down the cross-reference.
has_selection_always(selected) == TRUE

\* line 206: `if selected_escenarios:`
has_selection(selected) == selected # <<>>

\* line 209: the columns whose name starts with "Escenario:"
scenario_columns(df) ==
    SelectSeq(df.columns, LAMBDA c : startswith(c, Tok_EscenarioPrefix))

\* line 210: df_exercises[col] = df_exercises[col].astype(str)
astype_str_column(df, col) ==
    [df EXCEPT !.rows =
        [i \in 1..Len(df.rows) |->
            [df.rows[i] EXCEPT !.c[col_pos(df, col)] = astype_str(@)]]]

RECURSIVE astype_str_columns(_, _, _)
\* line 210 for the first k of the scenario columns
astype_str_columns(df, cols, k) ==
    IF k = 0 THEN df
    ELSE astype_str_column(astype_str_columns(df, cols, k - 1), cols[k])

RECURSIVE mask_over_labels(_, _, _, _, _)
\* lines 211-212 for one column from the k-th label on: mask |= contains(label)
mask_over_labels(df, col, selected, k, mask) ==
    IF k > Len(selected) THEN mask
    ELSE mask_over_labels(df, col, selected, k + 1,
            [i \in 1..Len(df.rows) |->
                mask[i] \/ re_search(selected[k].s, cell_of(df, df.rows[i], col).s)])

RECURSIVE mask_over_columns(_, _, _, _, _)
\* lines 209-212 from the k-th scenario column on; df is already converted
mask_over_columns(df, cols, selected, k, mask) ==
    IF k > Len(cols) THEN mask
    ELSE mask_over_columns(df, cols, selected, k + 1,
            mask_over_labels(df, cols[k], selected, 1, mask))

\* lines 208-212: pd.Series(False, ...) and the two loops
cross_reference_mask(df, selected) ==
    mask_over_columns(df, scenario_columns(df), selected, 1,
                      [i \in 1..Len(df.rows) |-> FALSE])

\* line 212 raises TypeError: str.contains is handed a label that is no text
cross_reference_raises(df, selected) ==
    /\ scenario_columns(df) # <<>>
    /\ \E k \in 1..Len(selected) : selected[k].k # "text"

\* df_exercises[exercise_mask]
select_by_mask(df, mask) ==
    [columns |-> df.columns,
     rows |-> LET RECURSIVE pick(_)
                  pick(i) == IF i > Len(df.rows) THEN <<>>
                             ELSE (IF mask[i] THEN <<df.rows[i]>> ELSE <<>>) \o pick(i + 1)
              IN  pick(1)]

---------------------------------------------------------------------------
(* ExerciseManager.                                                        *)

\* create_exercise_filters raises: KeyError for a column the dataframe
\* lacks, TypeError from sorted() (lines 137-154 sort unique() as it is,
\* missing values included)
create_exercise_filters_raises(df) ==
    \E m \in 1..Len(exercise_filter_columns) :
        \/ ~has_column(df, exercise_filter_columns[m])
        \/ sorted_raises(unique(df, exercise_filter_columns[m]))

\* the options of the four multiselects
exercise_filter_options(df) ==
    [m \in 1..Len(exercise_filter_columns) |->
        Range(unique(df, exercise_filter_columns[m]))]

RECURSIVE apply_exercise_filters_from(_, _, _)
\* the loop of lines 164-166 from its k-th entry on
apply_exercise_filters_from(df, fs, k) ==
    IF k > Len(fs) THEN df
    ELSE apply_exercise_filters_from(
            IF fs[k][2] # {}
            THEN select_rows(df, {r \in Range(df.rows) :
                                     isin(cell_of(df, r, fs[k][1]), fs[k][2])})
            ELSE df,
            fs, k + 1)

\* ExerciseManager.apply_exercise_filters
apply_exercise_filters(df, fs) == apply_exercise_filters_from(df, fs, 1)

---------------------------------------------------------------------------
(* The worksheets and the user's inputs the model draws from.              *)

\* "Ojo", "Escenarios", "Mi Escenario", "Escenario:1", "Escenario:2":
\* column names of the modelled worksheets, in pieces
Col_Ojo == <<"Ojo">>

Col_Escenarios == <<"Escenario", "s">>

Col_MiEscenario == <<"Mi ", "Escenario">>

Col_Escenario1 == <<"Escenario", ":", "1">>

Col_Escenario2 == <<"Escenario", ":", "2">>

\* a worksheet as get_as_dataframe returns it: a RangeIndex from 0
MakeSheet(columns, cells) ==
    [columns |-> columns,
     rows |-> [i \in 1..Len(cells) |-> [i |-> i - 1, c |-> cells[i]]]]

SeqsUpTo(S, n) == UNION {[1..k -> S] : k \in 0..n}

RECURSIVE Product(_)
\* the tuples with one element of each set of a sequence of sets
Product(sets) ==
    IF sets = <<>> THEN {<<>>}
    ELSE {<<x>> \o rest : x \in Head(sets), rest \in Product(Tail(sets))}

T_E1 == TextCell(<<"E", "1">>)

T_E2 == TextCell(<<"E", "2">>)

T_EDot == TextCell(<<"E", ".">>)

T_na == TextCell(<<"n", "a">>)

T_A == TextCell(<<"A">>)

T_D == TextCell(<<"D">>)

T_I == TextCell(<<"I">>)

T_x == TextCell(<<"x">>)

OjoCells == {NA, T_D, T_I, IntCell(1)}

PctCells == {NA, TextCell(<<"4","0","-","6","0">>), TextCell(<<"5","5">>),
             TextCell(<<"x">>), IntCell(40)}

\* the values the sliders are set to
SliderValues == {40, NeutralValue, 55}

LayoutExercises == <<Col_Escenario1, Col_Filmina, Col_Nivel, Col_Dificultad, Col_DificultadNivel>>

\* a secondary worksheet that no label of the other families matches
ExercisesNoMatch == MakeSheet(LayoutExercises, << <<TextCell(<<"Z">>), T_A, T_x, T_x, T_x>> >>)

\* primary worksheets with a categorical and a range-typed column
FamilyFilters ==
    {<<MakeSheet(<<Col_Ojo, Col_PctNatural, Col_Escenarios>>, cells), ExercisesNoMatch>> :
        cells \in SeqsUpTo(Product(<<OjoCells, PctCells, {T_E1}>>), MaxRows)}

\* the label of the i-th row in the family of many labels: "E1", "E2", ...
RowLabel(i) == TextCell(<<"E">> \o NatToText(i))

\* primary worksheets with up to MaxLabelRows scenario labels
FamilyLabels ==
    {<<MakeSheet(<<Col_Ojo, Col_Escenarios>>,
                 [i \in 1..Len(labels) |->
                     <<IF i = 1 THEN T_I ELSE T_D,
                       IF labels[i] = "own" THEN RowLabel(i)
                       ELSE IF labels[i] = "first" THEN RowLabel(1) ELSE NA>>]),
       ExercisesNoMatch>> :
        labels \in SeqsUpTo({"own", "first", "missing"}, MaxLabelRows)}

\* a primary worksheet that offers every kind of label: plain text, text
\* with a ".", text found in "nan", an integer
PrimaryAllLabels ==
    MakeSheet(<<Col_Escenarios>>, << <<T_E1>>, <<T_EDot>>, <<T_na>>, <<IntCell(1)>> >>)

SecondarySheets ==
    {MakeSheet(LayoutExercises, cells) :
        cells \in SeqsUpTo(Product(<<{NA, T_E1, T_E2, IntCell(1)}, {NA, T_A},
                                     {T_x}, {T_x}, {T_x}>>), MaxRows)}
    \cup
    {MakeSheet(<<Col_Escenario1, Col_Escenario2, Col_Filmina, Col_Nivel,
                 Col_Dificultad, Col_DificultadNivel>>, cells) :
        cells \in SeqsUpTo(Product(<<{NA, T_E1}, {NA, T_E2}, {T_A},
                                     {T_x}, {T_x}, {T_x}>>), MaxRows)}
    \cup
    {MakeSheet(<<Col_Escenarios, Col_Filmina, Col_Nivel, Col_Dificultad,
                 Col_DificultadNivel>>, cells) :
        cells \in SeqsUpTo(Product(<<{T_E1}, {T_A}, {T_x}, {T_x}, {T_x}>>), MaxRows)}
    \cup
    {MakeSheet(<<Col_Escenario1, Col_Nivel, Col_Dificultad, Col_DificultadNivel>>, cells) :
        cells \in SeqsUpTo(Product(<<{NA, T_E1}, {T_x}, {T_x}, {T_x}>>), MaxRows)}

\* secondary worksheets of every shape, under a primary with every label
FamilyExercises == {<<PrimaryAllLabels, x>> : x \in SecondarySheets}

PrimaryNames == {Col_Ojo, Col_Escenarios, Col_MiEscenario, Col_Descripcion,
                 Col_PctNatural, Col_PctRecesivo}

\* the cell a column of the family of layouts holds in a row
LayoutCells(name) ==
    IF name \in slider_columns THEN {TextCell(<<"4","0","-","6","0">>)}
    ELSE IF name = Col_Ojo THEN {T_D, IntCell(1)}
    ELSE {T_E1}

Injective(seq) == \A a, b \in 1..Len(seq) : a # b => seq[a] # seq[b]

Layouts == {l \in SeqsUpTo(PrimaryNames, MaxCols) : l # <<>> /\ Injective(l)}

\* primary worksheets with the columns in every order and choice
FamilyLayouts ==
    UNION {{<<MakeSheet(columns, cells), ExercisesNoMatch>> :
                cells \in SeqsUpTo(Product([j \in 1..Len(columns) |->
                                               LayoutCells(columns[j])]), MaxRows)} :
           columns \in Layouts}

\* worksheets with empty rows and empty columns, and worksheets with nothing
FamilyLoad ==
    {<<MakeSheet(<<Col_Ojo, Col_Escenarios>>, cells), x>> :
        cells \in SeqsUpTo(Product(<<{NA, T_D}, {NA, T_E1}>>), MaxRows),
        x \in {ExercisesNoMatch,
               MakeSheet(LayoutExercises, <<>>),
               MakeSheet(LayoutExercises, << <<NA, NA, NA, NA, NA>> >>),
               MakeSheet(LayoutExercises, << <<T_E1, T_A, NA, T_x, T_x>>,
                                             <<NA, NA, NA, NA, NA>>,
                                             <<T_E2, NA, NA, T_x, T_x>> >>)}}

\* the pairs of worksheets a run of main() may find
Worksheets == FamilyFilters \cup FamilyLabels \cup FamilyExercises
              \cup FamilyLayouts \cup FamilyLoad

\* what the user can leave selected in the scenario multiselect: the
\* default, nothing, one label, two neighbouring labels, or every label
SelectionChoices(options) ==
    {default_selection(options), <<>>, options}
    \cup {<<options[a]>> : a \in 1..Len(options)}
    \cup {<<options[a], options[a + 1]>> : a \in 1..(Len(options) - 1)}

---------------------------------------------------------------------------
(* main().                                                                 *)

Msg_LoadAsymmetries == "Error loading data: asymmetries"

Msg_LoadExercises == "Error loading data: exercises"

Msg_NoData == "No se pudieron cargar los datos. Por favor, verifica la conexion."

Msg_NoMatches == "No se encontraron ejercicios que coincidan con los criterios seleccionados."

Msg_NoScenarios == "Por favor, selecciona al menos un Escenario para filtrar los ejercicios."

Msg_AppError == "Error en la aplicacion"

Terminal == {"no_data", "no_scenarios", "no_matches", "done", "app_error"}

Init ==
    /\ pc = "start"
    /\ \E w \in Worksheets :
        /\ sheet_asymmetries = w[1]
        /\ sheet_exercises = w[2]
    /\ df_asymmetries = EmptyDataFrame
    /\ df_exercises = EmptyDataFrame
    /\ escenarios_col = <<>>
    /\ filters = <<>>
    /\ slider_filters = <<>>
    /\ filtered_df = EmptyDataFrame
    /\ any_filter_applied = FALSE
    /\ all_escenarios = <<>>
    /\ default_escenarios = <<>>
    /\ selected_escenarios = <<>>
    /\ exercise_mask = <<>>
    /\ filtered_exercises = EmptyDataFrame
    /\ exercise_filters = <<>>
    /\ final_exercises = EmptyDataFrame
    /\ bound = {}
    /\ st_error = {}
    /\ st_warning = {}
    /\ value = 0
    /\ range_str = NA
    /\ range_result = <<>>

range_vars == <<value, range_str, range_result>>

\* the except clause of main (lines 235-236)
Raise ==
    /\ pc' = "app_error"
    /\ st_error' = st_error \cup {Msg_AppError}

\* lines 176-177: the two calls of DataManager.load_data; either may fail
LoadData ==
    /\ pc = "start"
    /\ \E raises_a, raises_e \in BOOLEAN :
        /\ df_asymmetries' = load_data(sheet_asymmetries, raises_a)
        /\ df_exercises' = load_data(sheet_exercises, raises_e)
        /\ st_error' = st_error
                \cup (IF raises_a THEN {Msg_LoadAsymmetries} ELSE {})
                \cup (IF raises_e THEN {Msg_LoadExercises} ELSE {})
    /\ bound' = bound \cup {"df_asymmetries", "df_exercises"}
    /\ pc' = "loaded"
    /\ UNCHANGED <<sheet_asymmetries, sheet_exercises, escenarios_col, filters,
                   slider_filters, filtered_df, any_filter_applied, all_escenarios,
                   default_escenarios, selected_escenarios, exercise_mask,
                   filtered_exercises, exercise_filters, final_exercises,
                   st_warning, range_vars>>

\* A plausible slip: `and` for `or`.
data_missing_both(dfa, dfe) == empty(dfa) /\ empty(dfe)

\* line 179: df_asymmetries.empty or df_exercises.empty
data_missing(dfa, dfe) == empty(dfa) \/ empty(dfe)

\* lines 179-181
CheckData ==
    /\ pc = "loaded"
    /\ IF data_missing(df_asymmetries, df_exercises)
       THEN /\ st_error' = st_error \cup {Msg_NoData}
            /\ pc' = "no_data"
       ELSE /\ st_error' = st_error
            /\ pc' = "find_col"
    /\ UNCHANGED <<sheet_asymmetries, sheet_exercises, df_asymmetries, df_exercises,
                   escenarios_col, filters, slider_filters, filtered_df,
                   any_filter_applied, all_escenarios, default_escenarios,
                   selected_escenarios, exercise_mask, filtered_exercises,
                   exercise_filters, final_exercises, bound, st_warning, range_vars>>

\* lines 184-185; columns[-1] raises IndexError when there is no column
FindEscenariosCol ==
    /\ pc = "find_col"
    /\ IF Len(df_asymmetries.columns) = 0
       THEN /\ Raise
            /\ UNCHANGED <<escenarios_col, bound>>
       ELSE /\ escenarios_col' = find_escenarios_col(df_asymmetries.columns)
            /\ bound' = bound \cup {"escenarios_col"}
            /\ pc' = "sidebar"
            /\ st_error' = st_error
    /\ UNCHANGED <<sheet_asymmetries, sheet_exercises, df_asymmetries, df_exercises,
                   filters, slider_filters, filtered_df, any_filter_applied,
                   all_escenarios, default_escenarios, selected_escenarios,
                   exercise_mask, filtered_exercises, exercise_filters,
                   final_exercises, st_warning, range_vars>>

\* line 188: FilterManager.create_sidebar_filters and what the user sets
CreateSidebarFilters ==
    /\ pc = "sidebar"
    /\ IF create_sidebar_filters_raises(df_asymmetries, escenarios_col)
       THEN /\ Raise
            /\ UNCHANGED <<filters, slider_filters, bound>>
       ELSE LET mcols == multiselect_cols(df_asymmetries, escenarios_col)
                scols == slider_cols(df_asymmetries, escenarios_col)
                options == [m \in 1..Len(mcols) |->
                               Range(dropna_unique(df_asymmetries, mcols[m]))]
            IN  /\ \E picked \in SubsetChoices(options) :
                        filters' = filters_dict(mcols, picked)
                /\ \E values \in ValueChoices(Len(scols), SliderValues) :
                        slider_filters' = filters_dict(scols, values)
                /\ bound' = bound \cup {"filters", "slider_filters"}
                /\ pc' = "apply"
                /\ st_error' = st_error
    /\ UNCHANGED <<sheet_asymmetries, sheet_exercises, df_asymmetries, df_exercises,
                   escenarios_col, filtered_df, any_filter_applied, all_escenarios,
                   default_escenarios, selected_escenarios, exercise_mask,
                   filtered_exercises, exercise_filters, final_exercises,
                   st_warning, range_vars>>

\* line 189: FilterManager.apply_filters
ApplyFilters ==
    /\ pc = "apply"
    /\ filtered_df' = apply_filters(df_asymmetries, filters, slider_filters).df
    /\ any_filter_applied' = apply_filters(df_asymmetries, filters, slider_filters).any
    /\ bound' = bound \cup {"filtered_df", "any_filter_applied"}
    /\ pc' = "select"
    /\ UNCHANGED <<sheet_asymmetries, sheet_exercises, df_asymmetries, df_exercises,
                   escenarios_col, filters, slider_filters, all_escenarios,
                   default_escenarios, selected_escenarios, exercise_mask,
                   filtered_exercises, exercise_filters, final_exercises,
                   st_error, st_warning, range_vars>>

\* lines 197-206 and 232-233: the labels offered, the selection the user
\* leaves, and the branch on it
SelectEscenarios ==
    /\ pc = "select"
    /\ all_escenarios' = offered_escenarios(filtered_df, escenarios_col)
    /\ default_escenarios' = default_selection(all_escenarios')
    /\ \E sel \in SelectionChoices(all_escenarios') :
        /\ selected_escenarios' = sel
        /\ IF has_selection(sel)
           THEN /\ pc' = "cross"
                /\ st_warning' = st_warning
           ELSE /\ pc' = "no_scenarios"
                /\ st_warning' = st_warning \cup {Msg_NoScenarios}
    /\ bound' = bound \cup {"all_escenarios", "selected_escenarios"}
    /\ UNCHANGED <<sheet_asymmetries, sheet_exercises, df_asymmetries, df_exercises,
                   escenarios_col, filters, slider_filters, filtered_df,
                   any_filter_applied, exercise_mask, filtered_exercises,
                   exercise_filters, final_exercises, st_error, range_vars>>

\* lines 208-216 and 230-231: the cross-reference and the branch on its
\* result.  When line 212 raises, the first scenario column has already
\* been converted in place.
CrossReference ==
    /\ pc = "cross"
    /\ IF cross_reference_raises(df_exercises, selected_escenarios)
       THEN /\ Raise
            /\ df_exercises' = astype_str_columns(df_exercises,
                                                  scenario_columns(df_exercises), 1)
            /\ bound' = bound \cup {"exercise_mask"}
            /\ UNCHANGED <<exercise_mask, filtered_exercises, st_warning>>
       ELSE /\ df_exercises' = astype_str_columns(df_exercises,
                                    scenario_columns(df_exercises),
                                    Len(scenario_columns(df_exercises)))
            /\ exercise_mask' = cross_reference_mask(df_exercises', selected_escenarios)
            /\ filtered_exercises' = select_by_mask(df_exercises', exercise_mask')
            /\ bound' = bound \cup {"exercise_mask", "filtered_exercises"}
            /\ st_error' = st_error
            /\ IF ~empty(filtered_exercises')
               THEN /\ pc' = "exercise_filters"
                    /\ st_warning' = st_warning
               ELSE /\ pc' = "no_matches"
                    /\ st_warning' = st_warning \cup {Msg_NoMatches}
    /\ UNCHANGED <<sheet_asymmetries, sheet_exercises, df_asymmetries,
                   escenarios_col, filters, slider_filters, filtered_df,
                   any_filter_applied, all_escenarios, default_escenarios,
                   selected_escenarios, exercise_filters, final_exercises,
                   range_vars>>

\* line 218: ExerciseManager.create_exercise_filters and what the user sets
CreateExerciseFilters ==
    /\ pc = "exercise_filters"
    /\ IF create_exercise_filters_raises(filtered_exercises)
       THEN /\ Raise
            /\ UNCHANGED <<exercise_filters, bound>>
       ELSE /\ \E picked \in SubsetChoices(exercise_filter_options(filtered_exercises)) :
                    exercise_filters' = filters_dict(exercise_filter_columns, picked)
            /\ bound' = bound \cup {"exercise_filters"}
            /\ pc' = "apply_exercise"
            /\ st_error' = st_error
    /\ UNCHANGED <<sheet_asymmetries, sheet_exercises, df_asymmetries, df_exercises,
                   escenarios_col, filters, slider_filters, filtered_df,
                   any_filter_applied, all_escenarios, default_escenarios,
                   selected_escenarios, exercise_mask, filtered_exercises,
                   final_exercises, st_warning, range_vars>>

\* lines 219-229: ExerciseManager.apply_exercise_filters, then the display
\* and the export of the result
ApplyExerciseFilters ==
    /\ pc = "apply_exercise"
    /\ final_exercises' = apply_exercise_filters(filtered_exercises, exercise_filters)
    /\ bound' = bound \cup {"final_exercises"}
    /\ pc' = "done"
    /\ UNCHANGED <<sheet_asymmetries, sheet_exercises, df_asymmetries, df_exercises,
                   escenarios_col, filters, slider_filters, filtered_df,
                   any_filter_applied, all_escenarios, default_escenarios,
                   selected_escenarios, exercise_mask, filtered_exercises,
                   exercise_filters, st_error, st_warning, range_vars>>

Next ==
    \/ LoadData
    \/ CheckData
    \/ FindEscenariosCol
    \/ CreateSidebarFilters
    \/ ApplyFilters
    \/ SelectEscenarios
    \/ CrossReference
    \/ CreateExerciseFilters
    \/ ApplyExerciseFilters

Spec == Init /\ [][Next]_vars

---------------------------------------------------------------------------
(* Direct calls of FilterManager.is_in_percentage_range.                   *)

\* the characters of the texts handed to the call
RangeChars == {"4", "6", "-", "%"}

RangeCells ==
    {NA} \cup {IntCell(m) : m \in {-46, 0, 6, 64}}
         \cup {TextCell(t) : t \in SeqsUpTo(RangeChars, MaxLen)}

\* the slider's domain (min_value=0, max_value=100, step=1)
Queries == 0..100

InitRange ==
    /\ pc = "range_call"
    /\ value \in Queries
    /\ range_str \in RangeCells
    /\ range_result = <<>>
    /\ sheet_asymmetries = EmptyDataFrame
    /\ sheet_exercises = EmptyDataFrame
    /\ df_asymmetries = EmptyDataFrame
    /\ df_exercises = EmptyDataFrame
    /\ escenarios_col = <<>>
    /\ filters = <<>>
    /\ slider_filters = <<>>
    /\ filtered_df = EmptyDataFrame
    /\ any_filter_applied = FALSE
    /\ all_escenarios = <<>>
    /\ default_escenarios = <<>>
    /\ selected_escenarios = <<>>
    /\ exercise_mask = <<>>
    /\ filtered_exercises = EmptyDataFrame
    /\ exercise_filters = <<>>
    /\ final_exercises = EmptyDataFrame
    /\ bound = {}
    /\ st_error = {}
    /\ st_warning = {}

\* one call of is_in_percentage_range(value, range_str)
CallIsInPercentageRange ==
    /\ pc = "range_call"
    /\ range_result' = <<is_in_percentage_range(value, range_str)>>
    /\ pc' = "range_done"
    /\ UNCHANGED <<sheet_asymmetries, sheet_exercises, df_asymmetries, df_exercises,
                   escenarios_col, filters, slider_filters, filtered_df,
                   any_filter_applied, all_escenarios, default_escenarios,
                   selected_escenarios, exercise_mask, filtered_exercises,
                   exercise_filters, final_exercises, bound, st_error, st_warning,
                   value, range_str>>

NextRange == CallIsInPercentageRange

SpecRange == InitRange /\ [][NextRange]_vars

---------------------------------------------------------------------------
(* What the specification says of a range cell, stated without the scan:   *)
(* a digit run is a maximal interval of digit positions.                   *)

DigitRunSpans(s) ==
    {sp \in (1..Len(s)) \X (1..Len(s)) :
        /\ sp[1] <= sp[2]
        /\ \A i \in sp[1]..sp[2] : s[i] \in Digits
        /\ (sp[1] = 1 \/ s[sp[1] - 1] \notin Digits)
        /\ (sp[2] = Len(s) \/ s[sp[2] + 1] \notin Digits)}

RECURSIVE SpanValue(_, _, _)
\* the number written at positions a..b of s
SpanValue(s, a, b) ==
    IF a > b THEN 0
    ELSE DigitVal(s[a]) * 10 ^ (b - a) + SpanValue(s, a + 1, b)

\* the text of a cell that is present: an integer reads as its digits,
\* whose only run is its absolute value
RangeMatches(q, cell) ==
    IF cell.k = "na" THEN FALSE
    ELSE IF cell.k = "int" THEN q = (IF cell.n < 0 THEN -cell.n ELSE cell.n)
    ELSE LET spans == DigitRunSpans(cell.s)
         IN  IF Cardinality(spans) = 1
             THEN \E sp \in spans : q = SpanValue(cell.s, sp[1], sp[2])
             ELSE IF Cardinality(spans) = 2
             THEN \E lo, hi \in spans :
                    /\ lo[1] < hi[1]
                    /\ SpanValue(cell.s, lo[1], lo[2]) <= q
                    /\ q <= SpanValue(cell.s, hi[1], hi[2])
             ELSE FALSE

\* C1: for every cell (missing, integer or text) and every query in 0..100,
\* is_in_percentage_range returns a boolean: false for a missing cell,
\* q = n for one digit run n, lo <= q <= hi on the two runs in the order
\* found (no reordering), false for no run or three and more; and changing
\* a character that is no digit into another that is no digit changes nothing.
C1_RangeMatch ==
    pc = "range_done" =>
        /\ range_result \in {<<TRUE>>, <<FALSE>>}
        /\ range_result[1] = RangeMatches(value, range_str)
        /\ range_str.k = "text" =>
               \A i \in 1..Len(range_str.s), c \in RangeChars \ Digits :
                   range_str.s[i] \notin Digits =>
                       is_in_percentage_range(value,
                           TextCell([range_str.s EXCEPT ![i] = c])) = range_result[1]

\* the call has returned on "64-46" and 50: two runs, the first the larger
C1_Witness ==
    /\ pc = "range_done"
    /\ range_str = TextCell(<<"6", "4", "-", "4", "6">>)
    /\ value = 50
    /\ range_result = <<FALSE>>

---------------------------------------------------------------------------
(* The primary filter.                                                     *)

\* a row passes every predicate of the two dicts
RowPasses(df, fs, sfs, r) ==
    /\ \A k \in 1..Len(fs) :
          fs[k][2] # {} =>
              /\ ~isna(cell_of(df, r, fs[k][1]))
              /\ cell_of(df, r, fs[k][1]) \in fs[k][2]
    /\ \A k \in 1..Len(sfs) :
          sfs[k][2] # NeutralValue =>
              /\ ~isna(cell_of(df, r, sfs[k][1]))
              /\ RangeMatches(sfs[k][2], cell_of(df, r, sfs[k][1]))

SomeActive(fs, sfs) ==
    \/ \E k \in 1..Len(fs) : fs[k][2] # {}
    \/ \E k \in 1..Len(sfs) : sfs[k][2] # NeutralValue

\* C2: the dataframe apply_filters returns holds exactly the rows of its
\* input, in their order, for which every predicate holds: a non-empty
\* accepted set needs the cell in it (a missing cell never is), a query other
\* than 50 needs a present cell that matches it, and an empty accepted set or
\* a query of 50 excludes no row.
C2_FilteredRows ==
    "filtered_df" \in bound =>
        /\ filtered_df.columns = df_asymmetries.columns
        /\ filtered_df.rows =
              SelectSeq(df_asymmetries.rows,
                        LAMBDA r : RowPasses(df_asymmetries, filters, slider_filters, r))

\* a categorical and a range predicate are both active, a row with a missing
\* cell was removed and a row was kept
C2_Witness ==
    /\ "filtered_df" \in bound
    /\ \E k \in 1..Len(filters) : filters[k][2] # {}
    /\ \E k \in 1..Len(slider_filters) : slider_filters[k][2] # NeutralValue
    /\ Len(filtered_df.rows) = 1
    /\ \E i \in 1..Len(df_asymmetries.rows) :
          \E j \in 1..Len(df_asymmetries.columns) : isna(df_asymmetries.rows[i].c[j])

\* C3: any_filter_applied is true exactly when some accepted set is not empty
\* or some query is not 50, whether or not a row was removed; when it is
\* false the returned dataframe has exactly the rows of the input.
C3_AnyActive ==
    "any_filter_applied" \in bound =>
        /\ any_filter_applied = SomeActive(filters, slider_filters)
        /\ ~any_filter_applied => filtered_df.rows = df_asymmetries.rows

\* a predicate is active and no row was removed
C3_Witness ==
    /\ "any_filter_applied" \in bound
    /\ any_filter_applied
    /\ Len(df_asymmetries.rows) > 0
    /\ filtered_df.rows = df_asymmetries.rows

---------------------------------------------------------------------------
(* The scenario labels.                                                    *)

\* the place of the first row of df whose cell in col is v
FirstRowWith(df, col, v) ==
    CHOOSE i \in 1..Len(df.rows) :
        /\ cell_of(df, df.rows[i], col) = v
        /\ \A m \in 1..(i - 1) : cell_of(df, df.rows[m], col) # v

\* C10: the labels offered are exactly the distinct values, none missing, of
\* the scenario column among the rows that survived the primary filter, in
\* order of first occurrence; the default selection is the first 5 of them
\* when there are more than 5 and all of them otherwise.
C10_OfferedLabels ==
    "all_escenarios" \in bound =>
        LET kept == select_rows(df_asymmetries,
                        {r \in Range(df_asymmetries.rows) :
                            RowPasses(df_asymmetries, filters, slider_filters, r)})
        IN  /\ Range(all_escenarios) =
                  {cell_of(kept, kept.rows[i], escenarios_col) : i \in 1..Len(kept.rows)}
                  \ {NA}
            /\ Injective(all_escenarios)
            /\ \A a, b \in 1..Len(all_escenarios) :
                  a < b => FirstRowWith(kept, escenarios_col, all_escenarios[a])
                           < FirstRowWith(kept, escenarios_col, all_escenarios[b])
            /\ default_escenarios =
                  [m \in 1..(IF Len(all_escenarios) > 5 THEN 5 ELSE Len(all_escenarios))
                      |-> all_escenarios[m]]

\* more than 5 labels are offered, and the primary filter removed the only
\* row of some label
C10_Witness ==
    /\ "all_escenarios" \in bound
    /\ Len(all_escenarios) > 5
    /\ Len(default_escenarios) = 5
    /\ \E i \in 1..Len(df_asymmetries.rows) :
          LET v == cell_of(df_asymmetries, df_asymmetries.rows[i], escenarios_col)
          IN  ~isna(v) /\ v \notin Range(all_escenarios)

---------------------------------------------------------------------------
(* The branches of main().                                                 *)

\* C6: with an empty selection the run ends in the "no scenarios selected"
\* notice, which is not the "zero rows matched" notice: no cross-reference
\* mask, no second predicate set and no final dataframe exist, and no error
\* is shown.
C6_NoSelection ==
    /\ ("selected_escenarios" \in bound /\ selected_escenarios = <<>>) =>
          /\ pc = "no_scenarios"
          /\ st_warning = {Msg_NoScenarios}
          /\ st_error = {}
          /\ bound \cap {"exercise_mask", "filtered_exercises",
                         "exercise_filters", "final_exercises"} = {}
    /\ pc = "no_matches" => selected_escenarios # <<>> /\ st_warning = {Msg_NoMatches}

\* labels were offered and the user left none selected
C6_Witness ==
    /\ pc = "no_scenarios"
    /\ all_escenarios # <<>>
    /\ selected_escenarios = <<>>

\* C8: a failed load gives an empty dataframe and a shown error, and a run
\* with an empty primary or secondary dataframe ends at the check of line
\* 179: nothing raises and nothing later is computed from the dataframes.
C8_EmptyData ==
    /\ Msg_LoadAsymmetries \in st_error => df_asymmetries = EmptyDataFrame
    /\ Msg_LoadExercises \in st_error => df_exercises = EmptyDataFrame
    /\ (pc \notin {"start", "range_call", "range_done"}
        /\ (empty(df_asymmetries) \/ empty(df_exercises))) =>
          /\ pc \in {"loaded", "no_data"}
          /\ Msg_AppError \notin st_error
          /\ bound = {"df_asymmetries", "df_exercises"}
          /\ pc = "no_data" => Msg_NoData \in st_error

\* the load of the primary worksheet failed, the secondary one has rows, and
\* the run has ended
C8_Witness ==
    /\ pc = "no_data"
    /\ Msg_LoadAsymmetries \in st_error
    /\ empty(df_asymmetries)
    /\ ~empty(df_exercises)

---------------------------------------------------------------------------
(* Statements the code does not meet.                                      *)

\* the dataframes as load_data returned them
LoadedAsymmetries == load_data(sheet_asymmetries, Msg_LoadAsymmetries \in st_error)

LoadedExercises == load_data(sheet_exercises, Msg_LoadExercises \in st_error)

\* C4: a row of the secondary dataframe is in the cross-referenced result
\* exactly when some column whose name begins with "Escenario:" and some
\* selected label are such that the row's cell there, as text, contains the
\* label literally; a missing cell contains no label.
C4_LiteralSubstring ==
    "filtered_exercises" \in bound =>
        \A i \in 1..Len(LoadedExercises.rows) :
            exercise_mask[i] <=>
                \E j \in 1..Len(LoadedExercises.columns), k \in 1..Len(selected_escenarios) :
                    /\ startswith(LoadedExercises.columns[j], Tok_EscenarioPrefix)
                    /\ ~isna(LoadedExercises.rows[i].c[j])
                    /\ contains(str(LoadedExercises.rows[i].c[j]), selected_escenarios[k].s)

\* C5: after a run of main the two source dataframes hold the rows and the
\* cells they held when they were loaded, missing cells included.  (Stated
\* of the runs that end without an error, which is where it already fails.)
C5_SourcesUnchanged ==
    pc \in Terminal \ {"app_error"} =>
        /\ df_asymmetries = LoadedAsymmetries
        /\ df_exercises = LoadedExercises

\* a row passes every non-empty accepted set of the second predicate set
ExerciseRowPasses(df, fs, r) ==
    \A k \in 1..Len(fs) : fs[k][2] # {} => cell_of(df, r, fs[k][1]) \in fs[k][2]

\* C7: once the cross-reference is computed the run ends either with the
\* empty-result notice and no second predicate set, when no row is
\* cross-referenced, or with the final dataframe, which holds exactly the
\* cross-referenced rows that pass every non-empty accepted set, in order.
\* (Stated of the runs that select the one label "E1" on a secondary
\* dataframe that has the four columns the second predicate set is built
\* over, which is where it already fails.)
C7_SecondStage ==
    (/\ pc \in Terminal
     /\ "filtered_exercises" \in bound
     /\ selected_escenarios = <<T_E1>>
     /\ \A m \in 1..Len(exercise_filter_columns) :
           has_column(df_exercises, exercise_filter_columns[m])) =>
        IF filtered_exercises.rows = <<>>
        THEN /\ pc = "no_matches"
             /\ "exercise_filters" \notin bound
        ELSE /\ pc = "done"
             /\ final_exercises.rows =
                   SelectSeq(filtered_exercises.rows,
                       LAMBDA r : ExerciseRowPasses(filtered_exercises, exercise_filters, r))

\* the columns that hold an entry of a dict
Keys(dict) == {dict[k][1] : k \in 1..Len(dict)}

\* C9: the scenario column is the first column whose name contains
\* "Escenario", or the last column when none does; it and "Descripcion" get
\* no predicate, every other column gets exactly one, range-typed exactly
\* when its name is on the allow-list.
C9_Predicates ==
    ("escenarios_col" \in bound /\ pc # "sidebar") =>
        LET cols == df_asymmetries.columns
        IN  /\ \/ \E j \in 1..Len(cols) :
                     /\ escenarios_col = cols[j]
                     /\ contains(cols[j], Tok_Escenario)
                     /\ \A m \in 1..(j - 1) : ~contains(cols[m], Tok_Escenario)
               \/ /\ escenarios_col = cols[Len(cols)]
                  /\ \A m \in 1..Len(cols) : ~contains(cols[m], Tok_Escenario)
            /\ "filters" \in bound
            /\ Injective(filters) /\ Injective(slider_filters)
            /\ \A j \in 1..Len(cols) :
                  IF cols[j] = escenarios_col \/ cols[j] = Col_Descripcion
                  THEN cols[j] \notin Keys(filters) \cup Keys(slider_filters)
                  ELSE IF cols[j] \in slider_columns
                  THEN cols[j] \in Keys(slider_filters) \ Keys(filters)
                  ELSE cols[j] \in Keys(filters) \ Keys(slider_filters)

====
